---- MODULE Spec2Model ----
(***************************************************************************)
(* Validation, parsing and import of Letta .af agent files                 *)
(* (package mastra-af-letta).                                              *)
(*                                                                         *)
(* The Zod schemas of src/app/src/schema.ts are modelled as operators that *)
(* return what Zod's parser returns: a status (valid / dirty / aborted),   *)
(* the ordered list of issues and the output value (unknown keys of a      *)
(* plain z.object stripped).  The import converter of                      *)
(* src/unnamed/part_002 (import.ts) is modelled statement by statement.    *)
(* The parser entry points (parser.ts) are not part of the source tree;    *)
(* they are modelled from the specification and the README API reference.  *)
(***************************************************************************)
EXTENDS Integers, Sequences, FiniteSets, TLC

VARIABLES input, host, last

vars == <<input, host, last>>

\* ------------------------------------------------------------------ bounds
MaxMessages == 2
MaxIndices == 2
MaxTools == 2
MaxRules == 2
MaxRequired == 2

\* ------------------------------------------------------- JSON conventions
\* A string-typed key that is not present in the JSON object.
Absent == "<absent>"
\* An optional list- or object-typed key: << >> when not present, <<v>> when
\* present with value v.
None == << >>
Some(v) == << v >>
IsSome(o) == o # << >>
The(o) == o[1]

\* JavaScript truthiness of an optional string (undefined and "" are falsy).
Truthy(s) == s # Absent /\ s # ""

RECURSIVE Flatten(_)
Flatten(ss) == IF ss = << >> THEN << >> ELSE Head(ss) \o Flatten(Tail(ss))

\* ------------------------------------------------------------ Zod results
Issue(path, message, code) == [path |-> path, message |-> message, code |-> code]

Ok(v) == [status |-> "valid", issues |-> << >>, value |-> v]
Dirty(v, issue) == [status |-> "dirty", issues |-> << issue >>, value |-> v]
Invalid(v, issue) == [status |-> "aborted", issues |-> << issue >>, value |-> v]

\* ParseStatus.mergeObjectSync / mergeArray: any aborted member aborts the
\* container, any dirty member makes it dirty.
MergeStatus(statuses) ==
    IF "aborted" \in statuses THEN "aborted"
    ELSE IF "dirty" \in statuses THEN "dirty"
    ELSE "valid"

StatusesOf(rs) == { rs[i].status : i \in DOMAIN rs }
IssuesOf(rs) == Flatten([i \in DOMAIN rs |-> rs[i].issues])

\* ZodEffects of type "refinement": the inner schema is parsed first; if it
\* aborted the refinement is not run; otherwise the check runs on the inner
\* value and a failed check adds one custom issue and marks the result dirty.
RefineOnValidOnly(inner, passes, issue) ==
    IF inner.status # "valid" THEN inner
    ELSE IF passes THEN inner
    ELSE [status |-> "dirty", issues |-> Append(inner.issues, issue), value |-> inner.value]
Refine(inner, passes, issue) ==
    IF inner.status = "aborted" THEN inner
    ELSE IF passes THEN inner
    ELSE [status |-> "dirty", issues |-> Append(inner.issues, issue), value |-> inner.value]

\* z.object / z.array / z.record: every member is parsed, then the statuses
\* are merged and the issues concatenated in member order.
ObjectOf(rs, v) == [status |-> MergeStatus(StatusesOf(rs)), issues |-> IssuesOf(rs), value |-> v]

\* z.string().min(1, message)
StringMin1(s, path, message) ==
    IF s = Absent THEN Invalid(s, Issue(path, "Required", "invalid_type"))
    ELSE IF Len(s) < 1 THEN Dirty(s, Issue(path, message, "too_small"))
    ELSE Ok(s)

\* z.string().optional()
OptionalString(s) == Ok(s)

\* The timestamps the inputs are drawn from, with what z.string().datetime()
\* (no offset option: UTC "Z" form only) says of each.
TsZ == "2024-01-01T00:00:00Z"
TsBad == "not-a-timestamp"
\* The values "the current timestamp" can take (new Date().toISOString()).
Clock == {"2026-11-03T12:00:00.000Z", "2026-11-03T12:00:01.000Z"}
IsDatetime(s) == s \in {TsZ} \cup Clock

iso8601Message == "Timestamp must be in ISO 8601 format (e.g., 2024-01-01T00:00:00Z)"

iso8601Schema(s, path) ==
    IF s = Absent THEN Invalid(s, Issue(path, "Required", "invalid_type"))
    ELSE IF ~IsDatetime(s) THEN Dirty(s, Issue(path, iso8601Message, "invalid_string"))
    ELSE Ok(s)

\* --------------------------------------------------------------- schema.ts
Path(base, key) == Append(base, key)
Index(i) == ToString(i - 1)

\* llmConfigSchema: provider and model required and non-empty, temperature in
\* [0, 2] when present; .passthrough() keeps every other key in the output.
\* NoLlmConfig stands for a document without the llm_config key.
\* Of the keys the schema does not declare, the inputs use two: name and
\* deployment (strings, Absent when the key is not there).
NoLlmConfig ==
    [provider |-> Absent, model |-> Absent, temperature |-> None,
     name |-> Absent, deployment |-> Absent]

llmConfigSchema(c, path) ==
    IF c = NoLlmConfig THEN Invalid(c, Issue(path, "Required", "invalid_type")) ELSE
    LET provider == StringMin1(c.provider, Path(path, "provider"), "Provider is required")
        model == StringMin1(c.model, Path(path, "model"), "Model is required")
        temperature ==
            IF ~IsSome(c.temperature) THEN Ok(c.temperature)
            ELSE IF The(c.temperature) < 0
                THEN Dirty(c.temperature, Issue(Path(path, "temperature"), "Temperature must be >= 0", "too_small"))
            ELSE IF The(c.temperature) > 2
                THEN Dirty(c.temperature, Issue(Path(path, "temperature"), "Temperature must be <= 2", "too_big"))
            ELSE Ok(c.temperature)
    IN ObjectOf(<< provider, model, temperature >>, c)

\* coreMemoryBlockSchema: a plain z.object, so keys it does not declare (such
\* as "limit") are stripped from the output.
coreMemoryBlockSchema(b, path) ==
    LET label == StringMin1(b.label, Path(path, "label"), "Memory block label is required")
        value == IF b.value = Absent
                 THEN Invalid(b.value, Issue(Path(path, "value"), "Required", "invalid_type"))
                 ELSE Ok(b.value)
        limit ==
            IF ~IsSome(b.character_limit) THEN Ok(b.character_limit)
            ELSE IF The(b.character_limit) <= 0
                THEN Dirty(b.character_limit, Issue(Path(path, "character_limit"), "Character limit must be positive", "too_small"))
            ELSE Ok(b.character_limit)
    IN ObjectOf(<< label, value, limit >>, [b EXCEPT !.limit = None])

\* core_memory: z.record(coreMemoryBlockSchema).refine(memory =>
\* memory.persona && memory.human).  z.record aborts on anything that is not
\* a plain object, an array included.
Keys(entries) == { entries[i].key : i \in DOMAIN entries }

coreMemoryField(cm, path) ==
    IF cm.shape # "mapping"
    THEN Invalid(cm, Issue(path, "Expected object, received array", "invalid_type"))
    ELSE LET record(rs) ==
                 ObjectOf(rs, [cm EXCEPT !.entries =
                     [i \in DOMAIN cm.entries |-> [cm.entries[i] EXCEPT !.block = rs[i].value]]])
         IN Refine(record([i \in DOMAIN cm.entries |->
                       coreMemoryBlockSchema(cm.entries[i].block, Path(path, cm.entries[i].key))]),
                   "persona" \in Keys(cm.entries) /\ "human" \in Keys(cm.entries),
                   Issue(path, "Core memory must contain at least persona and human blocks", "custom"))

\* toolCallSchema / toolResultSchema: id and name are required non-empty
\* strings (arguments, result, error and metadata are not modelled).
toolCallSchema(c, path) ==
    ObjectOf(<< StringMin1(c.id, Path(path, "id"), "Tool call ID is required"),
                StringMin1(c.name, Path(path, "name"), "Tool name is required") >>, c)

toolResultSchema(r, path) ==
    ObjectOf(<< StringMin1(r.id, Path(path, "id"), "Tool result ID is required"),
                StringMin1(r.name, Path(path, "name"), "Tool name is required") >>, r)

toolCallsField(o, path) ==
    IF ~IsSome(o) THEN Ok(o)
    ELSE ObjectOf([i \in DOMAIN The(o) |-> toolCallSchema(The(o)[i], Path(path, Index(i)))], o)

toolResultsField(o, path) ==
    IF ~IsSome(o) THEN Ok(o)
    ELSE ObjectOf([i \in DOMAIN The(o) |-> toolResultSchema(The(o)[i], Path(path, Index(i)))], o)

\* messageSchema: metadata is an optional z.record(z.unknown()), so whatever
\* keys it holds pass.
MessageRoles == {"user", "assistant", "system", "tool"}

messageSchema(m, path) ==
    LET id == StringMin1(m.id, Path(path, "id"), "Message ID is required")
        role == IF m.role \in MessageRoles THEN Ok(m.role)
                ELSE Invalid(m.role, Issue(Path(path, "role"),
                         "Role must be one of: user, assistant, system, tool", "invalid_enum_value"))
        text == IF m.text = Absent
                THEN Invalid(m.text, Issue(Path(path, "text"), "Required", "invalid_type"))
                ELSE Ok(m.text)
        timestamp == iso8601Schema(m.timestamp, Path(path, "timestamp"))
        tool_calls == toolCallsField(m.tool_calls, Path(path, "tool_calls"))
        tool_results == toolResultsField(m.tool_results, Path(path, "tool_results"))
        metadata == Ok(m.metadata)
    IN ObjectOf(<< id, role, text, timestamp, tool_calls, tool_results, metadata >>, m)

\* z.array(element): every element is parsed, then merged.
ArrayOf(rs, v) == ObjectOf(rs, v)

\* parameterPropertySchema: type is a non-empty string; .passthrough().
parameterPropertySchema(p, path) ==
    ObjectOf(<< StringMin1(p.type, Path(path, "type"), "Parameter type is required") >>, p)

\* toolParametersSchema: type must be the literal "object", properties is a
\* record of parameter properties, required is an optional array of strings.
\* Nothing relates the names in required to the keys of properties.
toolParametersSchema(p, path) ==
    LET type == IF p.type = "object" THEN Ok(p.type)
                ELSE Invalid(p.type, Issue(Path(path, "type"),
                         "Tool parameters must have type \"object\"", "invalid_literal"))
        props == [i \in DOMAIN p.properties |->
                     parameterPropertySchema(p.properties[i].prop,
                         Path(Path(path, "properties"), p.properties[i].key))]
        properties == ArrayOf(props, p.properties)
        required == Ok(p.required)
    IN ObjectOf(<< type, properties, required >>, p)

\* mastraToolMetadataSchema: type in {mcp, url, reference}; server and endpoint
\* are URLs when present; the refinement requires server and tool_name for
\* mcp, endpoint for url.
MastraToolTypes == {"mcp", "url", "reference"}
IsUrl(s) == s \in {"https://mcp-github.example.com", "https://api.example.com/webhook"}

mastraToolMetadataSchema(m, path) ==
    LET type == IF m.type \in MastraToolTypes THEN Ok(m.type)
                ELSE Invalid(m.type, Issue(Path(path, "type"),
                         "Mastra tool type must be one of: mcp, url, reference", "invalid_enum_value"))
        server == IF m.server = Absent \/ IsUrl(m.server) THEN Ok(m.server)
                  ELSE Dirty(m.server, Issue(Path(path, "server"), "Server must be a valid URL", "invalid_string"))
        endpoint == IF m.endpoint = Absent \/ IsUrl(m.endpoint) THEN Ok(m.endpoint)
                    ELSE Dirty(m.endpoint, Issue(Path(path, "endpoint"), "Endpoint must be a valid URL", "invalid_string"))
    IN Refine(ObjectOf(<< type, server, Ok(m.tool_name), endpoint >>, m),
              IF m.type = "mcp" THEN Truthy(m.server) /\ Truthy(m.tool_name)
              ELSE IF m.type = "url" THEN Truthy(m.endpoint)
              ELSE TRUE,
              Issue(path, "MCP tools require server and tool_name, URL tools require endpoint", "custom"))

\* toolSchema
ToolTypes == {"python", "javascript", "json_schema"}

toolMetadataField(md, path) ==
    Refine(Ok(md),
           IF IsSome(md) /\ IsSome(The(md).mastra_tool)
              THEN mastraToolMetadataSchema(The(The(md).mastra_tool), << >>).status = "valid"
              ELSE TRUE,
           Issue(path, "Invalid _mastra_tool metadata structure", "custom"))

SourceCodeOkPythonOnly(tool) ==
    ~(tool.type = "python" /\ ~Truthy(tool.source_code))
SourceCodeOk(tool) ==
    ~((tool.type = "python" \/ tool.type = "javascript") /\ ~Truthy(tool.source_code))

ToolFields(tool, path) ==
    LET name == StringMin1(tool.name, Path(path, "name"), "Tool name is required")
        description == StringMin1(tool.description, Path(path, "description"), "Tool description is required")
        type == IF tool.type \in ToolTypes THEN Ok(tool.type)
                ELSE Invalid(tool.type, Issue(Path(path, "type"),
                         "Tool type must be one of: python, javascript, json_schema", "invalid_enum_value"))
        parameters == toolParametersSchema(tool.parameters, Path(path, "parameters"))
        source_code == OptionalString(tool.source_code)
        metadata == toolMetadataField(tool.metadata, Path(path, "metadata"))
    IN ObjectOf(<< name, description, type, parameters, source_code, metadata >>, tool)

toolSchema(tool, path) ==
    Refine(ToolFields(tool, path),
           SourceCodeOk(tool),
           Issue(Path(path, "source_code"),
                 "Source code is required for python and javascript tool types", "custom"))

\* toolRuleSchema: tool_name, rule_type and rule_content are all required
\* non-empty strings; a "configuration" key is not declared and is stripped.
toolRuleSchema(rule, path) ==
    LET tool_name == StringMin1(rule.tool_name, Path(path, "tool_name"), "Tool name is required")
        rule_type == StringMin1(rule.rule_type, Path(path, "rule_type"), "Rule type is required")
        rule_content == StringMin1(rule.rule_content, Path(path, "rule_content"), "Rule content is required")
    IN ObjectOf(<< tool_name, rule_type, rule_content >>, [rule EXCEPT !.configuration = Absent])

\* afAgentSchema: the object, then the two document-level refinements.
indexSchema(idx, path) ==
    IF idx < 0 THEN Dirty(idx, Issue(path, "Message index must be non-negative", "too_small"))
    ELSE Ok(idx)

indicesField(o, path) ==
    IF ~IsSome(o) THEN Ok(o)
    ELSE ArrayOf([i \in DOMAIN The(o) |-> indexSchema(The(o)[i], Path(path, Index(i)))], o)

toolRulesField(o, path) ==
    IF ~IsSome(o) THEN Ok(o)
    ELSE LET array(rs) == ArrayOf(rs, Some([i \in DOMAIN rs |-> rs[i].value]))
         IN array([i \in DOMAIN The(o) |-> toolRuleSchema(The(o)[i], Path(path, Index(i)))])

AgentFields(agent) ==
    LET agent_type == StringMin1(agent.agent_type, << "agent_type" >>, "Agent type is required")
        name == StringMin1(agent.name, << "name" >>, "Agent name is required")
        system == StringMin1(agent.system, << "system" >>, "System prompt is required")
        llm_config == llmConfigSchema(agent.llm_config, << "llm_config" >>)
        core_memory == coreMemoryField(agent.core_memory, << "core_memory" >>)
        msgs == [i \in DOMAIN agent.messages |->
                    messageSchema(agent.messages[i], << "messages", Index(i) >>)]
        messages == ArrayOf(msgs, agent.messages)
        indices == indicesField(agent.in_context_message_indices, << "in_context_message_indices" >>)
        tls == [i \in DOMAIN agent.tools |-> toolSchema(agent.tools[i], << "tools", Index(i) >>)]
        tools == ArrayOf(tls, agent.tools)
        tool_rules == toolRulesField(agent.tool_rules, << "tool_rules" >>)
        version == StringMin1(agent.version, << "version" >>, "Version is required")
        created_at == iso8601Schema(agent.created_at, << "created_at" >>)
        updated_at == iso8601Schema(agent.updated_at, << "updated_at" >>)
        \* the output carries the parsed core_memory (rs[5]) and tool_rules (rs[9])
        object(rs) == ObjectOf(rs, [agent EXCEPT !.core_memory = rs[5].value,
                                                 !.tool_rules = rs[9].value])
    IN object(<< agent_type, name, system, llm_config, core_memory, messages, indices,
                 tools, tool_rules, version, created_at, updated_at >>)

\* First refinement: every index is <= messages.length - 1.
IndicesInRangeOffByOne(agent) ==
    IF IsSome(agent.in_context_message_indices)
    THEN LET maxIndex == Len(agent.messages)
         IN \A i \in DOMAIN The(agent.in_context_message_indices) :
                The(agent.in_context_message_indices)[i] <= maxIndex
    ELSE TRUE
IndicesInRange(agent) ==
    IF IsSome(agent.in_context_message_indices)
    THEN LET maxIndex == Len(agent.messages) - 1
         IN \A i \in DOMAIN The(agent.in_context_message_indices) :
                The(agent.in_context_message_indices)[i] <= maxIndex
    ELSE TRUE

\* Second refinement: every rule's tool_name is the name of some tool.
ToolRulesReferenceFirstOnly(agent) ==
    IF IsSome(agent.tool_rules) /\ The(agent.tool_rules) # << >>
    THEN LET toolNames == { agent.tools[i].name : i \in DOMAIN agent.tools }
         IN The(agent.tool_rules)[1].tool_name \in toolNames
    ELSE TRUE
ToolRulesReference(agent) ==
    IF IsSome(agent.tool_rules)
    THEN LET toolNames == { agent.tools[i].name : i \in DOMAIN agent.tools }
         IN \A i \in DOMAIN The(agent.tool_rules) :
                The(agent.tool_rules)[i].tool_name \in toolNames
    ELSE TRUE

afAgentSchema(agent) ==
    LET first(fields) ==
            Refine(fields, IndicesInRange(fields.value),
                   Issue(<< "in_context_message_indices" >>,
                         "in_context_message_indices contains out-of-range message references",
                         "custom"))
        second(inner) ==
            Refine(inner, ToolRulesReference(inner.value),
                   Issue(<< "tool_rules" >>, "tool_rules references non-existent tools", "custom"))
    IN second(first(AgentFields(agent)))

\* schema.safeParse: success exactly when the status is valid; the data on
\* success, the collected issues otherwise.
NoDoc == [absent |-> TRUE]

safeParseAfSchema(data) ==
    LET result(r) ==
            IF r.status = "valid"
            THEN [success |-> TRUE, data |-> r.value, issues |-> << >>]
            ELSE [success |-> FALSE, data |-> NoDoc, issues |-> r.issues]
    IN result(afAgentSchema(data))

\* parseAfSchema: the data, or throws an Error('Agent file validation failed')
\* whose validationErrors are the issues with their paths joined by '.'.
RECURSIVE Join(_)
Join(path) ==
    IF path = << >> THEN ""
    ELSE IF Len(path) = 1 THEN path[1]
    ELSE path[1] \o "." \o Join(Tail(path))

ValidationErrors(issues) ==
    [i \in DOMAIN issues |->
        [path |-> Join(issues[i].path), message |-> issues[i].message, code |-> issues[i].code]]

parseAfSchema(data) ==
    LET outcome(r) ==
            IF r.success
            THEN [threw |-> FALSE, data |-> r.data, message |-> "", validationErrors |-> << >>]
            ELSE [threw |-> TRUE, data |-> NoDoc, message |-> "Agent file validation failed",
                  validationErrors |-> ValidationErrors(r.issues)]
    IN outcome(safeParseAfSchema(data))

\* ------------------------------------------------ parser (from the spec)
\* Default of the maxSizeBytes option: 50 MiB.
DefaultMaxSizeBytes == 52428800
DefaultVersion == "0.1.0"

DefaultParseOptions == [maxSizeBytes |-> DefaultMaxSizeBytes, autoFix |-> TRUE, strict |-> FALSE]
ParseOptions == [maxSizeBytes : {DefaultMaxSizeBytes}, autoFix : BOOLEAN, strict : BOOLEAN]

\* Auto-fix, applied before validation: current timestamp for a missing
\* created_at / updated_at, version "0.1.0" when absent, a timestamp for each
\* message that has none, type "object" for tool parameters that lack it.
\* (core_memory, messages and tools are present in every modelled input, so
\* the "initialise to an empty container if absent" repair never applies.)
applyAutoFixes(doc, now) ==
    [doc EXCEPT
        !.created_at = IF @ = Absent THEN now ELSE @,
        !.updated_at = IF @ = Absent THEN now ELSE @,
        !.version = IF @ = Absent THEN DefaultVersion ELSE @,
        !.messages = [i \in DOMAIN @ |->
            [@[i] EXCEPT !.timestamp = IF @ = Absent THEN now ELSE @]],
        !.tools = [i \in DOMAIN @ |->
            [@[i] EXCEPT !.parameters.type = IF @ = Absent THEN "object" ELSE @]]]

\* parse(rawText, options): throws a DocumentParseError when the text exceeds
\* maxSizeBytes, is not well-formed JSON, or fails validation (then carrying
\* the structured validation errors); returns the validated document
\* otherwise.  strict disables auto-fix whatever autoFix says.
Thrown(message, errors, hasCause) ==
    [threw |-> TRUE, data |-> NoDoc, message |-> message,
     validationErrors |-> errors, cause |-> hasCause]

parseAgentFile(text, options, now) ==
    IF text.size > options.maxSizeBytes
    THEN Thrown("Agent file exceeds maximum size", None, FALSE)
    ELSE IF text.kind # "json"
    THEN Thrown("Invalid JSON", None, TRUE)
    ELSE LET data == IF options.autoFix /\ ~options.strict
                     THEN applyAutoFixes(text.doc, now)
                     ELSE text.doc
             outcome(r) ==
                 IF r.threw
                 THEN Thrown("Agent file validation failed", Some(r.validationErrors), FALSE)
                 ELSE [threw |-> FALSE, data |-> r.data, message |-> "",
                       validationErrors |-> None, cause |-> FALSE]
         IN outcome(parseAfSchema(data))

\* The non-throwing variant: a tagged result, never an exception.
safeParseAgentFile(text, options, now) ==
    LET result(r) ==
            IF r.threw
            THEN [threw |-> FALSE, success |-> FALSE, data |-> NoDoc,
                  error |-> [message |-> r.message, validationErrors |-> r.validationErrors]]
            ELSE [threw |-> FALSE, success |-> TRUE, data |-> r.data,
                  error |-> [message |-> "", validationErrors |-> None]]
    IN result(parseAgentFile(text, options, now))

\* The boolean validity test.
isValidAgentFile(text, now) == safeParseAgentFile(text, DefaultParseOptions, now).success

\* null (None) when valid, else the ordered {path, message} records: those of
\* the structured error when it has them, else one record with its message.
PathMessage(errors) ==
    [i \in DOMAIN errors |-> [path |-> errors[i].path, message |-> errors[i].message]]

getValidationErrorsStructuredOnly(text, now) ==
    LET errors(r) ==
            IF r.success THEN None
            ELSE IF IsSome(r.error.validationErrors)
            THEN Some(PathMessage(The(r.error.validationErrors)))
            ELSE None
    IN errors(safeParseAgentFile(text, DefaultParseOptions, now))
getValidationErrors(text, now) ==
    LET errors(r) ==
            IF r.success THEN None
            ELSE IF IsSome(r.error.validationErrors)
            THEN Some(PathMessage(The(r.error.validationErrors)))
            ELSE Some(<< [path |-> "", message |-> r.error.message] >>)
    IN errors(safeParseAgentFile(text, DefaultParseOptions, now))

\* -------------------------------------------------- import.ts (part_002)
ToolCodeStrategies == {"skip", "stub", "schema-only"}
DefaultImportOptions == [toolCodeStrategy |-> "schema-only", includeMessages |-> TRUE]
ImportOptions == [toolCodeStrategy : ToolCodeStrategies, includeMessages : BOOLEAN]

Warning(field, reason, severity) == [field |-> field, reason |-> reason, severity |-> severity]

\* convertLLMConfig without a custom mapping: {provider, name: model,
\* ...params}, params being every key but provider and model; spread last, a
\* key of the config called name replaces the model in name.
convertLLMConfig(llmConfig) ==
    [provider |-> llmConfig.provider,
     name |-> IF llmConfig.name # Absent THEN llmConfig.name ELSE llmConfig.model,
     temperature |-> llmConfig.temperature,
     deployment |-> llmConfig.deployment]

\* createZodSchemaFromJsonSchema / createZodSchemaFromProperty: an object
\* schema with one member per property; when required is an array, every
\* property not listed in it becomes optional.
ZodTypeOf(type) ==
    IF type \in {"string", "number", "boolean", "array", "object"} THEN type ELSE "any"

createZodSchemaFromJsonSchema(jsonSchema) ==
    IF jsonSchema.type = "object"
    THEN [kind |-> "object",
          shape |-> [i \in DOMAIN jsonSchema.properties |->
              [key |-> jsonSchema.properties[i].key,
               type |-> ZodTypeOf(jsonSchema.properties[i].prop.type),
               optional |-> IsSome(jsonSchema.required)
                   /\ \A j \in DOMAIN The(jsonSchema.required) :
                          The(jsonSchema.required)[j] # jsonSchema.properties[i].key]]]
    ELSE [kind |-> "any", shape |-> << >>]

NoMcp == [type |-> Absent]

\* convertSchemaOnlyTool: id, description, inputSchema; no execute function.
convertSchemaOnlyTool(tool) ==
    [id |-> tool.name, description |-> tool.description,
     inputSchema |-> createZodSchemaFromJsonSchema(tool.parameters),
     execute |-> "none", mcpMetadata |-> NoMcp]

\* convertMcpTool: as schema-only, plus the _mcpMetadata extension slot.
convertMcpTool(tool, metadata) ==
    [id |-> tool.name, description |-> tool.description,
     inputSchema |-> createZodSchemaFromJsonSchema(tool.parameters),
     execute |-> "none",
     mcpMetadata |-> [type |-> metadata.type, server |-> metadata.server,
                      toolName |-> metadata.tool_name, endpoint |-> metadata.endpoint]]

\* handleSourceCodeTool: the tool (if any) and the warning for a strategy.
handleSourceCodeTool(tool, strategy) ==
    IF strategy = "skip"
    THEN [tool |-> None,
          warning |-> Warning("tools." \o tool.name,
                              "Tool with " \o tool.type \o " source code skipped", "info")]
    ELSE IF strategy = "stub"
    THEN [tool |-> Some([id |-> tool.name,
                         description |-> tool.description \o " (stub - source code not imported)",
                         inputSchema |-> createZodSchemaFromJsonSchema(tool.parameters),
                         execute |-> "throws", mcpMetadata |-> NoMcp]),
          warning |-> Warning("tools." \o tool.name,
                              "Created stub for " \o tool.type \o " tool", "warning")]
    ELSE [tool |-> Some(convertSchemaOnlyTool(tool)),
          warning |-> Warning("tools." \o tool.name,
                              "Tool imported without " \o tool.type \o " source code", "info")]

\* One iteration of the loop of convertTools: the entry put into the mapping
\* (if any) and the warnings pushed.  A tool object built in code may lack
\* parameters; createZodSchemaFromJsonSchema then reads .type of undefined,
\* the TypeError is caught by the loop body's try / catch and becomes an
\* error warning.  The skip strategy builds no schema and so raises nothing.
HasMcpMetadata(tool) == IsSome(tool.metadata) /\ IsSome(The(tool.metadata).mastra_tool)

NoParameters == [undefined |-> TRUE]

Caught(tool) ==
    [tool |-> None,
     warnings |-> << Warning("tools." \o tool.name,
                             "Cannot read properties of undefined (reading 'type')", "error") >>]

ConvertOne(tool, strategy) ==
    IF HasMcpMetadata(tool)
    THEN IF tool.parameters = NoParameters THEN Caught(tool)
         ELSE [tool |-> Some(convertMcpTool(tool, The(The(tool.metadata).mastra_tool))),
               warnings |-> << >>]
    ELSE IF Truthy(tool.source_code)
    THEN IF strategy # "skip" /\ tool.parameters = NoParameters THEN Caught(tool)
         ELSE LET result == handleSourceCodeTool(tool, strategy)
              IN [tool |-> result.tool, warnings |-> << result.warning >>]
    ELSE IF tool.parameters = NoParameters THEN Caught(tool)
    ELSE [tool |-> Some(convertSchemaOnlyTool(tool)), warnings |-> << >>]

\* convertTools: the mapping name -> host tool (a later tool of the same
\* name overwrites an earlier one) and the warnings in tool order.
convertTools(tools, strategy) ==
    LET one == [i \in DOMAIN tools |-> ConvertOne(tools[i], strategy)]
        kept == { i \in DOMAIN tools : IsSome(one[i].tool) }
        names == { tools[i].name : i \in kept }
        lastOf(n) == CHOOSE i \in kept :
                        tools[i].name = n /\ \A j \in kept : tools[j].name = n => j <= i
    IN [tools |-> [n \in names |-> The(one[lastOf(n)].tool)],
        warnings |-> Flatten([i \in DOMAIN tools |-> one[i].warnings])]

\* convertMessages: the metadata slot is {id, timestamp, toolCalls,
\* toolResults, ...msg.metadata}; the message's own metadata is spread last,
\* so a key of it named id or timestamp replaces the message's id or
\* timestamp.  (The keys a metadata mapping may hold are id, timestamp and
\* source, Absent standing for a key that is not there.)
NoMessageMetadata == [id |-> Absent, timestamp |-> Absent, source |-> Absent]

SpreadMetadata(msg, own) ==
    [id |-> IF own.id # Absent THEN own.id ELSE msg.id,
     timestamp |-> IF own.timestamp # Absent THEN own.timestamp ELSE msg.timestamp,
     toolCalls |-> msg.tool_calls,
     toolResults |-> msg.tool_results,
     source |-> own.source]

convertMessages(messages) ==
    [i \in DOMAIN messages |->
        [role |-> messages[i].role, content |-> messages[i].text,
         metadata |-> SpreadMetadata(messages[i],
                          IF IsSome(messages[i].metadata) THEN The(messages[i].metadata)
                          ELSE NoMessageMetadata)]]

\* convertCoreMemory: label -> {value, characterLimit, metadata}.
convertCoreMemory(blocks) ==
    LET labels == { blocks[i].block.label : i \in DOMAIN blocks }
        lastOf(l) == CHOOSE i \in DOMAIN blocks :
                        blocks[i].block.label = l
                        /\ \A j \in DOMAIN blocks : blocks[j].block.label = l => j <= i
    IN [l \in labels |->
           [value |-> blocks[lastOf(l)].block.value,
            characterLimit |-> blocks[lastOf(l)].block.character_limit]]

\* afAgent.core_memory.length > 0: an array has a length, a plain object (the
\* only form the schema lets through) has none, and undefined > 0 is false.
CoreMemoryLengthPositive(cm) == cm.shape = "list" /\ Len(cm.entries) > 0

\* The locals of importAfAgent when control reaches the tool count
\* (lines 125-187).
ImportLocals(afAgent, options) ==
    LET toolResults == convertTools(afAgent.tools, options.toolCodeStrategy)
        hasRules == IsSome(afAgent.tool_rules) /\ Len(The(afAgent.tool_rules)) > 0
        withMessages == options.includeMessages /\ Len(afAgent.messages) > 0
    IN [agent |-> [name |-> afAgent.name, instructions |-> afAgent.system,
                   model |-> convertLLMConfig(afAgent.llm_config),
                   tools |-> toolResults.tools],
        memory |-> [workingMemory |->
                        IF CoreMemoryLengthPositive(afAgent.core_memory)
                        THEN Some(convertCoreMemory(afAgent.core_memory.entries))
                        ELSE None,
                    messages |->
                        IF withMessages THEN Some(convertMessages(afAgent.messages)) ELSE None],
        warnings |->
            toolResults.warnings
            \o (IF hasRules
                THEN << Warning("tool_rules",
                        "Tool rules are not directly supported in Mastra. Consider implementing custom logic.",
                        "warning") >>
                ELSE << >>)
            \o (IF withMessages /\ IsSome(afAgent.in_context_message_indices)
                THEN << Warning("in_context_message_indices",
                        "Context window management is automatic in Mastra", "info") >>
                ELSE << >>),
        lossyConversions |-> IF hasRules THEN << "tool_rules" >> ELSE << >>]

\* The tool counts of lines 191-192, as they are computed from an array of
\* converted tools: mcpTools counts the tools whose _mcpMetadata has type
\* 'mcp', standardTools is the rest.  (importAfAgent does not get that far.)
CountToolTypes(tools) ==
    LET mcpTools == Cardinality({ n \in DOMAIN tools : tools[n].mcpMetadata.type = "mcp" })
    IN [mcpTools |-> mcpTools, standardTools |-> Cardinality(DOMAIN tools) - mcpTools]

\* importAfAgent: line 190 reads convertedTools, a name that is declared only
\* inside convertTools; evaluating it raises a ReferenceError, so the function
\* never reaches its return statement.
NoResult == [absent |-> TRUE]

importAfAgent(afAgent, options) ==
    LET locals == ImportLocals(afAgent, options)
    IN [threw |-> TRUE,
        error |-> "ReferenceError: convertedTools is not defined",
        result |-> NoResult]

\* ------------------------------------------------------------------ inputs
SeqsUpTo(S, n) == UNION { [1..k -> S] : k \in 0..n }

Block(label, limit) ==
    [label |-> label, value |-> "I am a helpful AI assistant.",
     limit |-> limit, character_limit |-> None]

\* core_memory written as a mapping label -> block, or as a list of blocks.
CoreMemory(shape, labels, limit) ==
    [shape |-> shape,
     entries |-> [i \in DOMAIN labels |->
         [key |-> IF shape = "mapping" THEN labels[i] ELSE Index(i),
          block |-> Block(labels[i], limit)]]]

Message(i, timestamp) ==
    [id |-> "msg_" \o ToString(i), role |-> "user", text |-> "Hello", timestamp |-> timestamp,
     tool_calls |-> None, tool_results |-> None, metadata |-> None]

Messages(n) == [i \in 1..n |-> Message(i, TsZ)]

Property(key) == [key |-> key, prop |-> [type |-> "string"]]

Parameters(keys, required) ==
    [type |-> "object", properties |-> [i \in DOMAIN keys |-> Property(keys[i])],
     required |-> required]

Tool(name, type, source_code) ==
    [name |-> name, description |-> "A tool", type |-> type,
     parameters |-> Parameters(<< >>, None),
     source_code |-> source_code, metadata |-> None]

McpMetadata == [type |-> "mcp", server |-> "https://mcp-github.example.com",
                tool_name |-> "search", endpoint |-> Absent]
UrlMetadata == [type |-> "url", server |-> Absent, tool_name |-> Absent,
                endpoint |-> "https://api.example.com/webhook"]

Rule(tool_name, rule_content, configuration) ==
    [tool_name |-> tool_name, rule_type |-> "max_use",
     rule_content |-> rule_content, configuration |-> configuration]

\* The minimal document of the compliance fixtures, with a provider.
BaseDoc ==
    [agent_type |-> "letta", name |-> "Minimal Agent",
     system |-> "You are a helpful assistant.",
     llm_config |-> [NoLlmConfig EXCEPT !.provider = "openai", !.model = "gpt-4"],
     core_memory |-> CoreMemory("mapping", << "persona", "human" >>, None),
     messages |-> << >>,
     in_context_message_indices |-> None,
     tools |-> << >>,
     tool_rules |-> None,
     version |-> "0.1.0", created_at |-> TsZ, updated_at |-> TsZ]

\* Identification, versioning, llm_config and the blocks' "limit" key.
ScalarDocs ==
    { [BaseDoc EXCEPT !.name = n, !.version = v, !.created_at = c, !.updated_at = u,
                      !.llm_config.provider = p,
                      !.core_memory = CoreMemory("mapping", << "persona", "human" >>, l)] :
        n \in {Absent, "", "Minimal Agent"}, v \in {Absent, "0.1.0"},
        c \in {Absent, TsBad, TsZ}, u \in {Absent, TsBad, TsZ},
        p \in {Absent, "openai"}, l \in {None, Some(100)} }

\* core_memory in both shapes, with every choice of blocks.
MemoryLabelLists ==
    { << >>, << "persona" >>, << "human" >>, << "custom" >>, << "persona", "human" >>,
      << "human", "persona" >>, << "persona", "custom" >>, << "persona", "human", "custom" >> }

MemoryDocs ==
    { [BaseDoc EXCEPT !.core_memory = CoreMemory(shape, labels, l)] :
        shape \in {"mapping", "list"}, labels \in MemoryLabelLists, l \in {None, Some(100)} }

\* llm_config with a numeric knob and with keys the schema does not declare.
LlmConfigDocs ==
    { [BaseDoc EXCEPT !.llm_config.temperature = t, !.llm_config.name = n,
                      !.llm_config.deployment = d] :
        t \in {None, Some(1), Some(3)}, n \in {Absent, "gpt-4-alias"}, d \in {Absent, "eu-west"} }

\* The persona block with an empty value (value is z.string(), no minimum).
EmptyValueDocs ==
    { [BaseDoc EXCEPT !.core_memory.entries[1].block.value = ""] }

\* Messages and in_context_message_indices; the index values reach one below
\* zero and one past the last message.
IndexValues == -1 .. MaxMessages

IndexDocs ==
    { [BaseDoc EXCEPT !.messages = Messages(n), !.in_context_message_indices = idx] :
        n \in 0..MaxMessages,
        idx \in {None} \cup { Some(s) : s \in SeqsUpTo(IndexValues, MaxIndices) } }

\* Tools of every type with and without source code.
ToolNames == {"get_weather", "calculate"}
ToolName(i) == IF i = 1 THEN "get_weather" ELSE IF i = 2 THEN "calculate" ELSE "tool_" \o ToString(i)

SourceDocs ==
    { [BaseDoc EXCEPT !.tools = [i \in DOMAIN ts |-> Tool(ToolName(i), ts[i][1], ts[i][2])]] :
        ts \in SeqsUpTo(ToolTypes \X {Absent, "", "def f(): pass"}, MaxTools) }

\* Tools and the rules that reference them.
RuleDocs ==
    { [BaseDoc EXCEPT !.tools = [i \in DOMAIN ns |-> Tool(ns[i], "json_schema", Absent)],
                      !.tool_rules = rs] :
        ns \in SeqsUpTo(ToolNames, MaxTools),
        rs \in {None} \cup
              { Some([i \in DOMAIN r |-> Rule(r[i], "max_calls: 10", Absent)]) :
                  r \in SeqsUpTo(ToolNames \cup {"missing_tool"}, MaxRules) } }

\* The shapes a rule's content is written in: a rule_content string (possibly
\* empty), or a structured configuration object in its place.
RuleShapes == { << "max_calls: 10", Absent >>, << "", Absent >>, << Absent, "{max_uses: 10}" >> }
RuleVariants == { Rule(n, c[1], c[2]) : n \in {"get_weather", "missing_tool"}, c \in RuleShapes }

RuleShapeDocs ==
    { [BaseDoc EXCEPT !.tools = << Tool("get_weather", "json_schema", Absent) >>,
                      !.tool_rules = Some(rs)] :
        rs \in { << a >> : a \in RuleVariants } \cup { << a, b >> : a, b \in RuleVariants } }

\* One tool whose parameters have properties and a required list.
PropertyLists == { << >>, << "location" >>, << "location", "units" >> }
RequiredNames == {"location", "units", "ghost"}

ParameterDocs ==
    { [BaseDoc EXCEPT !.tools =
          << [Tool("get_weather", "json_schema", Absent) EXCEPT !.parameters = Parameters(keys, req)] >>] :
        keys \in PropertyLists,
        req \in {None} \cup { Some(r) : r \in SeqsUpTo(RequiredNames, MaxRequired) } }

\* External tools, message timestamps and parameter types that auto-fix
\* touches.
OtherDocs ==
    { [BaseDoc EXCEPT !.tools = << [Tool("github_search", t, src) EXCEPT
                                       !.metadata = Some([mastra_tool |-> md]),
                                       !.parameters.type = pt] >>,
                      !.messages = << Message(1, mt) >>] :
        t \in {"json_schema", "python"}, src \in {Absent, "def f(): pass"},
        md \in {None, Some(McpMetadata), Some(UrlMetadata),
                Some([McpMetadata EXCEPT !.server = Absent])},
        pt \in {"object", Absent}, mt \in {TsZ, Absent} }

\* One message with tool calls and results and a metadata mapping of its own,
\* whose keys may be named as the message's fields are.
ToolCall(id) == [id |-> id, name |-> "get_weather"]

MessageMetadata ==
    { None, Some([NoMessageMetadata EXCEPT !.source = "web"]),
      Some([NoMessageMetadata EXCEPT !.id = "meta_1", !.timestamp = "yesterday"]) }

MessageDocs ==
    { [BaseDoc EXCEPT !.messages =
          << [Message(1, TsZ) EXCEPT !.tool_calls = calls, !.tool_results = calls,
                                     !.metadata = md] >>] :
        calls \in {None, Some(<< ToolCall("call_1") >>), Some(<< ToolCall("") >>)},
        md \in MessageMetadata }

\* Documents that break several cross-reference rules at once: one message
\* with an index in or past the range, one tool with or without the source
\* code its type needs, one rule naming that tool or a missing one.
CrossReferenceDocs ==
    { [BaseDoc EXCEPT !.messages = Messages(1),
                      !.in_context_message_indices = Some(<< idx >>),
                      !.tools = << Tool("get_weather", t, Absent) >>,
                      !.tool_rules = Some(<< Rule(n, "max_calls: 10", Absent) >>)] :
        idx \in {0, 1}, t \in {"python", "json_schema"}, n \in {"get_weather", "missing_tool"} }

Docs == ScalarDocs \cup MemoryDocs \cup IndexDocs \cup SourceDocs \cup RuleDocs
            \cup RuleShapeDocs \cup ParameterDocs \cup OtherDocs \cup CrossReferenceDocs
            \cup MessageDocs \cup EmptyValueDocs \cup LlmConfigDocs

\* An input text: well-formed JSON holding a document, or malformed; with its
\* size in bytes.
JsonText(doc) == [kind |-> "json", size |-> 1024, doc |-> doc]
MalformedText == [kind |-> "malformed", size |-> 44, doc |-> NoDoc]
OversizedText == [kind |-> "json", size |-> DefaultMaxSizeBytes + 1, doc |-> BaseDoc]

Inputs == { JsonText(d) : d \in Docs } \cup {MalformedText, OversizedText}

\* A document object built in code and handed to importAfAgent as it is,
\* without parsing: three tools, the one at position p without parameters,
\* with or without source code.
HandBuilt(doc) == [kind |-> "object", size |-> 0, doc |-> doc]

HandBuiltTools(p, source_code) ==
    [i \in 1..3 |->
        IF i = p
        THEN [Tool(ToolName(i), IF Truthy(source_code) THEN "python" ELSE "json_schema",
                   source_code) EXCEPT !.parameters = NoParameters]
        ELSE Tool(ToolName(i), "json_schema", Absent)]

HandBuiltDocs ==
    { [BaseDoc EXCEPT !.tools = HandBuiltTools(p, src)] :
        p \in 1..3, src \in {Absent, "def f(): pass"} }

\* -------------------------------------------------- export.ts (part_003)
\* A DynamicArgument of the host: a static value, a function, or not given.
Static(v) == [kind |-> "static", value |-> v]
Dynamic == [kind |-> "function"]
Missing == [kind |-> "undefined"]
\* instructions is string-typed: a string, the function marker, or Absent.
Function == "<function>"

\* a || b on optional strings.
Or(a, b) == IF Truthy(a) THEN a ELSE b

\* Object.entries(obj).  A mapping does not record the insertion order of its
\* keys, so the entries come in one fixed order.
RECURSIVE EntriesFrom(_, _)
EntriesFrom(obj, keys) ==
    IF keys = {} THEN << >>
    ELSE LET k == CHOOSE k \in keys : TRUE
         IN << [key |-> k, value |-> obj[k]] >> \o EntriesFrom(obj, keys \ {k})

ObjectEntries(obj) == EntriesFrom(obj, DOMAIN obj)

DefaultMaxMessages == 1000
DefaultExportOptions ==
    [pretty |-> TRUE, includeMastraMetadata |-> TRUE, version |-> "0.1.0",
     includeMessages |-> TRUE, maxMessages |-> DefaultMaxMessages, agentType |-> "mastra"]

\* convertModelToLLMConfig: a function resolves to nothing and yields the
\* default config marked _dynamic; a static model gives provider || 'unknown',
\* model := name || 'unknown' and the remaining keys.
convertModelToLLMConfig(model) ==
    IF model.kind = "function"
    THEN [provider |-> "openai", model |-> "gpt-4", temperature |-> None,
          name |-> Absent, deployment |-> Absent, dynamic |-> TRUE]
    ELSE [provider |-> Or(model.value.provider, "unknown"),
          model |-> Or(model.value.name, "unknown"),
          temperature |-> model.value.temperature,
          name |-> Absent, deployment |-> model.value.deployment]

\* convertZodToJsonSchema: a value without _def gives an empty object schema;
\* a ZodObject gives its properties and, when non-empty, the list of the keys
\* that are not optional; string, number, boolean, array keep their type,
\* ZodOptional unwraps, anything else (ZodAny included) becomes a string.
NoSchema == [kind |-> "undefined", shape |-> << >>]

JsonTypeOf(type) ==
    IF type \in {"string", "number", "boolean", "array", "object"} THEN type ELSE "string"

RECURSIVE RequiredKeys(_)
RequiredKeys(shape) ==
    IF shape = << >> THEN << >>
    ELSE (IF Head(shape).optional THEN << >> ELSE << Head(shape).key >>)
             \o RequiredKeys(Tail(shape))

convertZodToJsonSchema(zodSchema) ==
    IF zodSchema.kind = "undefined"
    THEN [type |-> "object", properties |-> << >>, required |-> None]
    ELSE IF zodSchema.kind = "object"
    THEN LET withRequired(required) ==
                 [type |-> "object",
                  properties |-> [i \in DOMAIN zodSchema.shape |->
                      [key |-> zodSchema.shape[i].key,
                       prop |-> [type |-> JsonTypeOf(zodSchema.shape[i].type)]]],
                  required |-> IF Len(required) > 0 THEN Some(required) ELSE None]
         IN withRequired(RequiredKeys(zodSchema.shape))
    ELSE [type |-> "string", properties |-> << >>, required |-> None]

\* convertMastraToolToAf: the type is always json_schema; the _mcpMetadata
\* object, when the tool has one, is written as metadata._mastra_tool as it
\* is, with the keys it has (type, server, toolName, endpoint); it has no
\* tool_name key.
convertMastraToolToAf(name, tool) ==
    [name |-> name,
     description |-> Or(tool.description, ""),
     type |-> "json_schema",
     parameters |-> convertZodToJsonSchema(tool.inputSchema),
     source_code |-> Absent,
     metadata |->
         IF tool.mcpMetadata # NoMcp
         THEN Some([mastra_tool |-> Some(
                  [type |-> tool.mcpMetadata.type, server |-> tool.mcpMetadata.server,
                   toolName |-> tool.mcpMetadata.toolName,
                   endpoint |-> tool.mcpMetadata.endpoint, tool_name |-> Absent])])
         ELSE None]

\* Working-memory data: null, a scalar (with its String() text) or an object
\* {value, characterLimit}.
JsNull == [null |-> TRUE]
Scalar(text) == [scalar |-> text]
TypeofObject(data) == "scalar" \notin DOMAIN data

\* convertWorkingMemoryToCore: typeof data === 'object' && data.value.  null
\* is of type 'object', and reading .value of null raises a TypeError; an
\* object with a truthy value gives a structured block; every other entry
\* gives {label, value: String(data)}.
RECURSIVE BlocksOf(_)
BlocksOf(entries) ==
    IF entries = << >> THEN [threw |-> FALSE, blocks |-> << >>]
    ELSE IF Head(entries).value = JsNull THEN [threw |-> TRUE, blocks |-> << >>]
    ELSE LET data == Head(entries).value
             block ==
                 IF TypeofObject(data) /\ Truthy(data.value)
                 THEN [label |-> Head(entries).key, value |-> data.value,
                       limit |-> None, character_limit |-> data.characterLimit]
                 ELSE [label |-> Head(entries).key,
                       value |-> IF TypeofObject(data) THEN "[object Object]" ELSE data.scalar,
                       limit |-> None, character_limit |-> None]
             push(rest) == [threw |-> rest.threw,
                            blocks |-> IF rest.threw THEN << >> ELSE << block >> \o rest.blocks]
         IN push(BlocksOf(Tail(entries)))

convertWorkingMemoryToCore(workingMemory) == BlocksOf(ObjectEntries(workingMemory))

\* convertMastraMessageToAf(message, index), index counted from 0.
EmptyMetadata ==
    [id |-> Absent, timestamp |-> Absent, toolCalls |-> None, toolResults |-> None,
     source |-> Absent]

convertMastraMessageToAf(message, index, now) ==
    [id |-> Or(message.metadata.id, "msg_" \o ToString(index)),
     role |-> message.role,
     text |-> message.content,
     timestamp |-> Or(message.metadata.timestamp, now),
     tool_calls |-> message.metadata.toolCalls,
     tool_results |-> message.metadata.toolResults,
     metadata |-> IF message.metadata # EmptyMetadata THEN Some(message.metadata) ELSE None]

\* Array.prototype.slice(-n): from index max(len - n, 0); -0 is 0, so
\* slice(-0) is the whole array.
SliceLast(seq, n) ==
    IF n = 0 \/ n >= Len(seq) THEN seq
    ELSE SubSeq(seq, Len(seq) - n + 1, Len(seq))

\* exportMastraAgent(agent, memory, options), with the value `now` of
\* new Date().toISOString().  agent.metadata holds afMetadata {agentType,
\* createdAt} (NoAfMetadata when it has no such key) and, of the other keys,
\* possibly one called mastra_dynamic_instructions; the other keys are spread
\* into metadata_ last, over what the export has written there.
\* MASTRA_VERSION is not set in the environment.
NoAfMetadata == [agentType |-> Absent, createdAt |-> Absent]
NoExportResult == [absent |-> TRUE]

exportMastraAgent(agent, memory, options, now) ==
    LET afMetadata == IF IsSome(agent.metadata) THEN The(agent.metadata).afMetadata
                      ELSE NoAfMetadata
        isFunction == agent.instructions = Function
        omittedFeatures ==
            (IF isFunction THEN << "dynamic_instructions" >> ELSE << >>)
            \o (IF agent.tools.kind = "function" THEN << "dynamic_tools" >> ELSE << >>)
        toolEntries == IF agent.tools.kind = "static" THEN ObjectEntries(agent.tools.value)
                       ELSE << >>
        kept == IF IsSome(memory) /\ options.includeMessages /\ IsSome(The(memory).messages)
                THEN SliceLast(The(The(memory).messages), options.maxMessages)
                ELSE << >>
        result(core, tools, messages) ==
            IF core.threw
            THEN [threw |-> TRUE,
                  error |-> "TypeError: Cannot read properties of null (reading 'value')",
                  result |-> NoExportResult]
            ELSE [threw |-> FALSE, error |-> "",
                  result |->
                    [content |-> JsonText(
                        [agent_type |-> Or(afMetadata.agentType, options.agentType),
                         name |-> agent.name,
                         description |-> "Mastra agent: " \o agent.name,
                         system |-> IF isFunction
                                    THEN "Dynamic instructions (function - see metadata)"
                                    ELSE IF agent.instructions = Absent
                                    THEN "Dynamic instructions (see metadata)"
                                    ELSE agent.instructions,
                         llm_config |-> IF agent.model.kind = "undefined" THEN NoLlmConfig
                                        ELSE convertModelToLLMConfig(agent.model),
                         core_memory |->
                             [shape |-> "list",
                              entries |-> [i \in DOMAIN core.blocks |->
                                  [key |-> Index(i), block |-> core.blocks[i]]]],
                         messages |-> messages,
                         in_context_message_indices |-> None,
                         tools |-> tools,
                         tool_rules |-> None,
                         version |-> options.version,
                         created_at |-> Or(afMetadata.createdAt, now),
                         updated_at |-> now,
                         metadata_ |->
                             [mastra_dynamic_instructions |->
                                  IF IsSome(agent.metadata)
                                     /\ IsSome(The(agent.metadata).mastra_dynamic_instructions)
                                  THEN The(agent.metadata).mastra_dynamic_instructions
                                  ELSE IF isFunction THEN Some(TRUE) ELSE None,
                              mastra_export |->
                                  IF options.includeMastraMetadata
                                  THEN Some([version |-> "unknown", exportedAt |-> now,
                                             features |->
                                                 [dynamicInstructions |-> isFunction,
                                                  mcpTools |-> \E i \in DOMAIN tools :
                                                      IsSome(tools[i].metadata)]])
                                  ELSE None]]),
                     pretty |-> options.pretty,
                     metadata |-> [omittedFeatures |-> omittedFeatures,
                                   toolCount |-> Len(tools),
                                   messageCount |-> Len(messages)]]]
    IN result(IF IsSome(memory) /\ IsSome(The(memory).workingMemory)
              THEN convertWorkingMemoryToCore(The(The(memory).workingMemory))
              ELSE [threw |-> FALSE, blocks |-> << >>],
              [i \in DOMAIN toolEntries |->
                  convertMastraToolToAf(toolEntries[i].key, toolEntries[i].value)],
              [i \in DOMAIN kept |-> convertMastraMessageToAf(kept[i], i - 1, now)])

\* ----------------------------------------------------------- host inputs
MaxTurns == 3

HostAgent(name, instructions, model, tools, metadata) ==
    [name |-> name, instructions |-> instructions, model |-> model, tools |-> tools,
     metadata |-> metadata]

HostMemory(workingMemory, messages) == [workingMemory |-> workingMemory, messages |-> messages]

Host(agent, memory) == [kind |-> "config", agent |-> agent, memory |-> memory]
NoHost == [kind |-> "none"]

HostModel == [provider |-> "openai", name |-> "gpt-4", temperature |-> None, deployment |-> Absent]
BaseHostAgent == HostAgent("Test Agent", "You are a test agent", Static(HostModel), Missing, None)

\* A host tool with an input schema of one required string, as z.object({query: z.string()}).
HostTool ==
    [id |-> "github_tool", description |-> "GitHub search",
     inputSchema |-> [kind |-> "object",
                      shape |-> << [key |-> "query", type |-> "string", optional |-> FALSE] >>],
     execute |-> "none", mcpMetadata |-> NoMcp]

\* instructions, model and tools as a static value, a function, or not given.
DynamicHosts ==
    { Host(HostAgent("Test Agent", instructions, model, tools, metadata), None) :
        instructions \in {"You are a test agent", Function, Absent},
        model \in {Static(HostModel), Dynamic, Missing},
        tools \in {Static([n \in {"github_tool"} |-> HostTool]),
                   Static([n \in {"plain_tool"} |-> [HostTool EXCEPT !.inputSchema = NoSchema,
                                                                      !.description = Absent]]),
                   Dynamic, Missing},
        metadata \in {None,
                      Some([afMetadata |-> [agentType |-> "letta", createdAt |-> TsZ],
                            mastra_dynamic_instructions |-> None])} }

\* Host agents whose own metadata has a key called mastra_dynamic_instructions.
MetadataHosts ==
    { Host(HostAgent("Test Agent", instructions, Static(HostModel), Missing,
                     Some([afMetadata |-> NoAfMetadata,
                           mastra_dynamic_instructions |-> Some(FALSE)])), None) :
        instructions \in {"You are a test agent", Function, Absent} }

\* Working memory with entries that are null, scalars or objects.
WorkingMemoryData ==
    { JsNull, Scalar("Test context"),
      [value |-> "Helpful assistant", characterLimit |-> Some(500)],
      [value |-> "", characterLimit |-> None] }

WorkingMemoryHosts ==
    { Host(BaseHostAgent, Some(HostMemory(Some(wm), None))) :
        wm \in UNION { [labels -> WorkingMemoryData] : labels \in SUBSET {"personality", "context"} } }

\* n chat turns, with or without a metadata slot.
Turn(i, metadata) == [role |-> "user", content |-> "Message " \o ToString(i), metadata |-> metadata]

TurnMetadata(i) ==
    [EmptyMetadata EXCEPT !.id = "msg_" \o ToString(100 + i), !.timestamp = TsZ]

TurnHosts ==
    { Host(BaseHostAgent,
           Some(HostMemory(None,
                Some([i \in 1..n |-> Turn(i, IF withMetadata THEN TurnMetadata(i)
                                             ELSE EmptyMetadata)])))) :
        n \in 0..MaxTurns, withMetadata \in BOOLEAN }
        \cup { Host(BaseHostAgent, Some(HostMemory(None, None))) }

\* The host agent and memory that importAfAgent has built from a document when
\* control reaches line 190.
AsHostAgent(agent) ==
    HostAgent(agent.name, agent.instructions, Static(agent.model), Static(agent.tools), None)

BuiltByImport(doc, options) ==
    LET built(locals) == Host(AsHostAgent(locals.agent), Some(locals.memory))
    IN built(ImportLocals(safeParseAfSchema(doc).data, options))

ImportedHosts ==
    { BuiltByImport(doc, DefaultImportOptions) :
        doc \in { d \in OtherDocs \cup MemoryDocs : safeParseAfSchema(d).success } }

HostInputs == DynamicHosts \cup WorkingMemoryHosts \cup TurnHosts \cup ImportedHosts
                  \cup MetadataHosts

\* The options an export is called with: the defaults with pretty and
\* includeMastraMetadata varied, or with includeMessages and maxMessages
\* varied.
ExportOptions ==
    { [DefaultExportOptions EXCEPT !.pretty = p, !.includeMastraMetadata = m] :
        p \in BOOLEAN, m \in BOOLEAN }
    \cup { [DefaultExportOptions EXCEPT !.includeMessages = i, !.maxMessages = k] :
              i \in BOOLEAN, k \in (0 .. MaxTurns + 1) \cup {DefaultMaxMessages} }

\* export(import(doc)): the document is imported and the agent and memory of
\* the import result are exported.
roundTrip(doc, importOptions, exportOptions, now) ==
    LET export(imported) ==
            IF imported.threw
            THEN [threw |-> TRUE, error |-> imported.error, result |-> NoExportResult]
            ELSE exportMastraAgent(AsHostAgent(imported.result.agent),
                                   Some(imported.result.memory), exportOptions, now)
    IN export(importAfAgent(doc, importOptions))

\* ----------------------------------------------------------- state machine
\* input: the text (or, for import, the object) handed to the library.
\* last: the most recent call, with the options it was given and what it
\* returned or threw.
NoOptions == [none |-> TRUE]
NoCall == [entry |-> "none", options |-> NoOptions, outcome |-> [none |-> TRUE]]

Call(entry, options, outcome) == [entry |-> entry, options |-> options, outcome |-> outcome]

Init ==
    /\ \/ input \in Inputs \cup { HandBuilt(d) : d \in HandBuiltDocs } /\ host = NoHost
       \/ input = JsonText(BaseDoc) /\ host \in HostInputs
    /\ last = NoCall

\* afAgentSchema.safeParse(data) on the deserialised document.
SchemaSafeParse ==
    /\ input.kind = "json"
    /\ last' = Call("afAgentSchema.safeParse", NoOptions, safeParseAfSchema(input.doc))
    /\ UNCHANGED << input, host >>

ParseAgentFile ==
    \E options \in ParseOptions, now \in Clock :
        /\ input.kind # "object"
        /\ last' = Call("parseAgentFile", options, parseAgentFile(input, options, now))
        /\ UNCHANGED << input, host >>

SafeParseAgentFile ==
    \E options \in ParseOptions, now \in Clock :
        /\ input.kind # "object"
        /\ last' = Call("safeParseAgentFile", options, safeParseAgentFile(input, options, now))
        /\ UNCHANGED << input, host >>

IsValidAgentFile ==
    \E now \in Clock :
        /\ input.kind # "object"
        /\ last' = Call("isValidAgentFile", NoOptions, [value |-> isValidAgentFile(input, now)])
        /\ UNCHANGED << input, host >>

GetValidationErrors ==
    \E now \in Clock :
        /\ input.kind # "object"
        /\ last' = Call("getValidationErrors", NoOptions, [value |-> getValidationErrors(input, now)])
        /\ UNCHANGED << input, host >>

\* importAfAgent(afAgent, options) on a document that passed validation, or
\* on a document object built in code.
ImportAfAgent ==
    \E options \in ImportOptions :
        /\ \/ /\ input.kind = "json"
              /\ safeParseAfSchema(input.doc).success
              /\ last' = Call("importAfAgent", options,
                              importAfAgent(safeParseAfSchema(input.doc).data, options))
           \/ /\ input.kind = "object"
              /\ last' = Call("importAfAgent", options, importAfAgent(input.doc, options))
        /\ UNCHANGED << input, host >>

\* exportMastraAgent(agent, memory, options) on a host configuration.
ExportMastraAgent ==
    \E options \in ExportOptions, now \in Clock :
        /\ host.kind = "config"
        /\ last' = Call("exportMastraAgent", options,
                        exportMastraAgent(host.agent, host.memory, options, now))
        /\ UNCHANGED << input, host >>

\* exportMastraAgent(imported.agent, imported.memory) where imported is
\* importAfAgent(afAgent, options), on a document that passed validation.
RoundTrip ==
    \E options \in ImportOptions, now \in Clock :
        /\ input.kind = "json"
        /\ safeParseAfSchema(input.doc).success
        /\ last' = Call("roundTrip", options,
                        roundTrip(safeParseAfSchema(input.doc).data, options,
                                  DefaultExportOptions, now))
        /\ UNCHANGED << input, host >>

Next ==
    \/ SchemaSafeParse
    \/ ParseAgentFile
    \/ SafeParseAgentFile
    \/ IsValidAgentFile
    \/ GetValidationErrors
    \/ ImportAfAgent
    \/ ExportMastraAgent
    \/ RoundTrip

Spec == Init /\ [][Next]_vars

\* ------------------------------------------------------------------ claims
Validated == last.entry = "afAgentSchema.safeParse"
ValidDoc(doc) == safeParseAfSchema(doc).success

\* C1: for a document that is otherwise valid, validation succeeds exactly
\* when in_context_message_indices is absent or every value idx in it
\* satisfies 0 <= idx < len(messages); an index < 0 or >= len(messages) makes
\* it fail (so any non-empty list fails when messages is empty).
IndicesWithinBounds(doc) ==
    ~IsSome(doc.in_context_message_indices)
    \/ \A i \in DOMAIN The(doc.in_context_message_indices) :
          /\ 0 <= The(doc.in_context_message_indices)[i]
          /\ The(doc.in_context_message_indices)[i] < Len(doc.messages)

C1_IndexBounds ==
    (Validated /\ ValidDoc([input.doc EXCEPT !.in_context_message_indices = None]))
        => (last.outcome.success <=> IndicesWithinBounds(input.doc))

\* An index equal to len(messages), next to a valid one, is rejected.
C1_Witness ==
    /\ Validated
    /\ Len(input.doc.messages) = MaxMessages
    /\ input.doc.in_context_message_indices = Some(<< 0, MaxMessages >>)
    /\ ~last.outcome.success

\* C2: for a document that is otherwise valid, validation fails if and only
\* if some tool_rules entry names a tool that is not in tools; without
\* tool_rules, or with rules that all name existing tools, it passes.
RulesNameExistingTools(doc) ==
    ~IsSome(doc.tool_rules)
    \/ \A i \in DOMAIN The(doc.tool_rules) :
          \E j \in DOMAIN doc.tools : doc.tools[j].name = The(doc.tool_rules)[i].tool_name

RulesWellFormed(doc) ==
    ~IsSome(doc.tool_rules)
    \/ \A i \in DOMAIN The(doc.tool_rules) :
          toolRuleSchema(The(doc.tool_rules)[i], << >>).status = "valid"

C2_ToolRuleReferences ==
    (Validated /\ ValidDoc([input.doc EXCEPT !.tool_rules = None]) /\ RulesWellFormed(input.doc))
        => (~last.outcome.success <=> ~RulesNameExistingTools(input.doc))

\* Two rules, the first naming an existing tool and the second a missing one:
\* rejected.
C2_Witness ==
    /\ Validated
    /\ IsSome(input.doc.tool_rules)
    /\ Len(The(input.doc.tool_rules)) = 2
    /\ Len(input.doc.tools) >= 1
    /\ The(input.doc.tool_rules)[1].tool_name = input.doc.tools[1].name
    /\ The(input.doc.tool_rules)[2].tool_name = "missing_tool"
    /\ RulesWellFormed(input.doc)
    /\ ~last.outcome.success

\* C3: a document with any tool (first or not) of type python or javascript
\* whose source_code is absent or empty fails validation; an otherwise valid
\* document whose python / javascript tools all have source code passes, its
\* json_schema tools needing none.
MissingSource(tool) ==
    tool.type \in {"python", "javascript"} /\ tool.source_code \in {Absent, ""}

WithSource(doc) ==
    [doc EXCEPT !.tools = [i \in DOMAIN @ |-> [@[i] EXCEPT !.source_code = "def f(): pass"]]]

C3_SourceCodeRequired ==
    Validated =>
        /\ (\E i \in DOMAIN input.doc.tools : MissingSource(input.doc.tools[i]))
               => ~last.outcome.success
        /\ (ValidDoc(WithSource(input.doc))
               /\ \A i \in DOMAIN input.doc.tools : ~MissingSource(input.doc.tools[i]))
               => last.outcome.success

\* The second tool lacks source code, the first is a json_schema tool without
\* any: rejected because of the second.
C3_Witness ==
    /\ Validated
    /\ Len(input.doc.tools) = 2
    /\ input.doc.tools[1].type = "json_schema" /\ input.doc.tools[1].source_code = Absent
    /\ input.doc.tools[2].type = "javascript" /\ input.doc.tools[2].source_code = ""
    /\ ~last.outcome.success

\* C4 (as claimed): validation accepts core_memory as a mapping and as a list
\* and, in either form, fails exactly when the persona block or the human
\* block is missing.
HasBlock(doc, label) ==
    \E i \in DOMAIN doc.core_memory.entries : doc.core_memory.entries[i].block.label = label

C4_BothShapes ==
    (Validated
        /\ ValidDoc([input.doc EXCEPT !.core_memory = BaseDoc.core_memory]))
        => (last.outcome.success <=> (HasBlock(input.doc, "persona") /\ HasBlock(input.doc, "human")))

\* C5 (as claimed): the minimal document, whose llm_config has a model and no
\* provider and whose blocks carry a limit, parses with default options, and
\* the result keeps the name and each block's limit.
MinimalDoc ==
    [BaseDoc EXCEPT !.llm_config.provider = Absent,
                    !.core_memory = CoreMemory("mapping", << "persona", "human" >>, Some(100))]

C5_MinimalParses ==
    (input = JsonText(MinimalDoc) /\ last.entry = "parseAgentFile"
        /\ last.options = DefaultParseOptions)
        => /\ ~last.outcome.threw
           /\ last.outcome.data.name = "Minimal Agent"
           /\ \A i \in DOMAIN last.outcome.data.core_memory.entries :
                  last.outcome.data.core_memory.entries[i].block.limit = Some(100)

\* C6 (as claimed): a rule that names an existing tool passes validation with
\* a non-empty rule_content and also with a configuration object in its place.
RuleHasContent(rule) == Truthy(rule.rule_content) \/ rule.configuration # Absent

C6_EitherRuleShape ==
    (Validated
        /\ ValidDoc([input.doc EXCEPT !.tool_rules = None])
        /\ IsSome(input.doc.tool_rules)
        /\ \A i \in DOMAIN The(input.doc.tool_rules) : RuleHasContent(The(input.doc.tool_rules)[i])
        /\ RulesNameExistingTools(input.doc))
        => last.outcome.success

\* C7 (as claimed): validation fails whenever a tool's required list names a
\* property that is not a key of its properties.
RequiredWithinProperties(parameters) ==
    ~IsSome(parameters.required)
    \/ \A i \in DOMAIN The(parameters.required) :
          The(parameters.required)[i] \in Keys(parameters.properties)

C7_RequiredExists ==
    (Validated
        /\ \E i \in DOMAIN input.doc.tools : ~RequiredWithinProperties(input.doc.tools[i].parameters))
        => ~last.outcome.success

\* C8: on one and the same input text, with default options, the four entry
\* points agree on validity: isValidAgentFile returns true iff
\* getValidationErrors returns null iff parseAgentFile returns without
\* throwing iff safeParseAgentFile returns success; and safeParseAgentFile
\* never throws, malformed JSON included.  Stated over every pair of
\* consecutive calls (the input does not change between calls).
ParserEntries == {"parseAgentFile", "safeParseAgentFile", "isValidAgentFile", "getValidationErrors"}

WithDefaults(call) ==
    /\ call.entry \in ParserEntries
    /\ call.entry \in {"parseAgentFile", "safeParseAgentFile"} => call.options = DefaultParseOptions

Accepts(call) ==
    IF call.entry = "isValidAgentFile" THEN call.outcome.value = TRUE
    ELSE IF call.entry = "getValidationErrors" THEN call.outcome.value = None
    ELSE IF call.entry = "parseAgentFile" THEN ~call.outcome.threw
    ELSE call.outcome.success

AgreeStep ==
    (WithDefaults(last) /\ WithDefaults(last')) => (Accepts(last) <=> Accepts(last'))

SafeParseReturns ==
    last.entry = "safeParseAgentFile" => ~last.outcome.threw

MissingThree(doc) ==
    /\ doc.version = Absent /\ doc.created_at = Absent /\ doc.updated_at = Absent
    /\ ValidDoc([doc EXCEPT !.version = DefaultVersion, !.created_at = TsZ, !.updated_at = TsZ])

ErrorPaths(errors) == { errors[i].path : i \in DOMAIN errors }

C9_AutoFix ==
    (last.entry = "parseAgentFile" /\ input.kind = "json"
        /\ input.size <= DefaultMaxSizeBytes /\ MissingThree(input.doc))
        => /\ (last.options.autoFix /\ ~last.options.strict)
                => /\ ~last.outcome.threw
                   /\ last.outcome.data.version = "0.1.0"
                   /\ last.outcome.data.created_at \in Clock
                   /\ last.outcome.data.updated_at \in Clock
                   /\ [last.outcome.data EXCEPT !.version = Absent, !.created_at = Absent,
                                                !.updated_at = Absent] = input.doc
           /\ ~last.options.autoFix
                => /\ last.outcome.threw
                   /\ IsSome(last.outcome.validationErrors)
                   /\ {"version", "created_at", "updated_at"}
                          \subseteq ErrorPaths(The(last.outcome.validationErrors))

\* C10 (as claimed): importAfAgent returns a result without throwing for every
\* document that passes validation, under every toolCodeStrategy and every
\* includeMessages.
C10_ImportReturns ==
    last.entry = "importAfAgent" => ~last.outcome.threw

\* ------------------------------------------------------ claims on import
Imported == last.entry = "importAfAgent"
WarningsFor(warnings, field) == { i \in DOMAIN warnings : warnings[i].field = field }

\* C11 (as claimed): for every tool that has source_code and no external-tool
\* metadata, import with strategy skip leaves the tool out of the host tool
\* mapping and adds exactly one info warning for it; stub adds a host tool
\* whose handler always fails and exactly one warning of severity warning;
\* schema-only adds a host tool with no handler and exactly one info warning.
SourceOnly(tool) == Truthy(tool.source_code) /\ ~HasMcpMetadata(tool)

StrategyHonoured(tool, strategy, result) ==
    LET at == WarningsFor(result.warnings, "tools." \o tool.name)
        severity == IF strategy = "stub" THEN "warning" ELSE "info"
    IN /\ Cardinality(at) = 1
       /\ \A i \in at : result.warnings[i].severity = severity
       /\ IF strategy = "skip" THEN tool.name \notin DOMAIN result.agent.tools
          ELSE /\ tool.name \in DOMAIN result.agent.tools
               /\ result.agent.tools[tool.name].execute =
                      (IF strategy = "stub" THEN "throws" ELSE "none")

C11_SourceCodeStrategies ==
    (Imported /\ \E i \in DOMAIN input.doc.tools : SourceOnly(input.doc.tools[i]))
        => /\ ~last.outcome.threw
           /\ \A i \in DOMAIN input.doc.tools :
                  SourceOnly(input.doc.tools[i])
                      => StrategyHonoured(input.doc.tools[i], last.options.toolCodeStrategy,
                                          last.outcome.result)

\* C12 (as claimed): for every document that passes validation, the memory
\* returned by importAfAgent has a workingMemory mapping with, for each
\* core-memory block, an entry keyed by the block's label that carries the
\* block's value and character limit.
C12_WorkingMemory ==
    Imported
        => /\ ~last.outcome.threw
           /\ IsSome(last.outcome.result.memory.workingMemory)
           /\ \A i \in DOMAIN input.doc.core_memory.entries :
                  LET block == input.doc.core_memory.entries[i].block
                      wm == The(last.outcome.result.memory.workingMemory)
                  IN /\ block.label \in DOMAIN wm
                     /\ wm[block.label].value = block.value
                     /\ wm[block.label].characterLimit = block.character_limit

\* C13 (as claimed): whenever the imported document has at least one tool
\* rule, the result has a warning with field tool_rules and its
\* metadata.lossyConversions contains "tool_rules"; without tool rules
\* neither appears; under every value of the import options.
HasToolRules(doc) == IsSome(doc.tool_rules) /\ Len(The(doc.tool_rules)) > 0

C13_ToolRulesSurfaced ==
    Imported
        => /\ ~last.outcome.threw
           /\ (WarningsFor(last.outcome.result.warnings, "tool_rules") # {})
                  <=> HasToolRules(input.doc)
           /\ (\E i \in DOMAIN last.outcome.result.metadata.lossyConversions :
                   last.outcome.result.metadata.lossyConversions[i] = "tool_rules")
                  <=> HasToolRules(input.doc)

\* ------------------------------------------------- claims on round trips
RoundTripped == last.entry = "roundTrip" /\ last.options = DefaultImportOptions
Exported == last.outcome.result.content.doc

\* Equality of two JSON objects: the same keys with the same values, a key
\* that is not present counting as Absent.
Get(obj, k) == IF k \in DOMAIN obj THEN obj[k] ELSE Absent
SameObject(a, b) == \A k \in DOMAIN a \cup DOMAIN b : Get(a, k) = Get(b, k)

HasExternalMetadata(tool) == IsSome(tool.metadata) /\ IsSome(The(tool.metadata).mastra_tool)

\* C14 (as claimed): for every tool carrying metadata._mastra_tool, importing
\* the document and exporting the resulting host agent yields a tool of the
\* same name whose metadata._mastra_tool equals the original object, key by
\* key.
MetadataKept(tool, exported) ==
    \E j \in DOMAIN exported.tools :
        /\ exported.tools[j].name = tool.name
        /\ HasExternalMetadata(exported.tools[j])
        /\ SameObject(The(The(exported.tools[j].metadata).mastra_tool),
                      The(The(tool.metadata).mastra_tool))

C14_ExternalMetadataRoundTrip ==
    (last.entry = "roundTrip"
        /\ \E i \in DOMAIN input.doc.tools : HasExternalMetadata(input.doc.tools[i]))
        => /\ ~last.outcome.threw
           /\ \A i \in DOMAIN input.doc.tools :
                  HasExternalMetadata(input.doc.tools[i])
                      => MetadataKept(input.doc.tools[i], Exported)

\* C15 (as claimed): for every valid document, export(import(doc)) with
\* default options reproduces name and system exactly and the messages in
\* number and order, each with the original's text and timestamp.
MessagesKept(doc, exported) ==
    /\ Len(exported.messages) = Len(doc.messages)
    /\ \A i \in DOMAIN doc.messages :
           /\ exported.messages[i].text = doc.messages[i].text
           /\ exported.messages[i].timestamp = doc.messages[i].timestamp

C15_NameSystemMessages ==
    RoundTripped
        => /\ ~last.outcome.threw
           /\ Exported.name = input.doc.name
           /\ Exported.system = input.doc.system
           /\ MessagesKept(input.doc, Exported)

\* C16 (as claimed): for every valid document, export(import(doc)) with
\* default options has as many tools as the document, each with the same
\* name, the same type and a parameters schema equal to the original (same
\* properties, same required list).
ToolKept(tool, exported) ==
    \E j \in DOMAIN exported.tools :
        /\ exported.tools[j].name = tool.name
        /\ exported.tools[j].type = tool.type
        /\ exported.tools[j].parameters.properties = tool.parameters.properties
        /\ exported.tools[j].parameters.required = tool.parameters.required

ToolsKept(doc, exported) ==
    /\ Len(exported.tools) = Len(doc.tools)
    /\ \A i \in DOMAIN doc.tools : ToolKept(doc.tools[i], exported)

C16_ToolsRoundTrip ==
    RoundTripped
        => /\ ~last.outcome.threw
           /\ ToolsKept(input.doc, Exported)

\* ------------------------------------------------------ claims on export
ExportReturned == last.entry = "exportMastraAgent" /\ ~last.outcome.threw
Omitted(feature) ==
    \E i \in DOMAIN last.outcome.result.metadata.omittedFeatures :
        last.outcome.result.metadata.omittedFeatures[i] = feature

\* C17 (as claimed): when the host agent's instructions value is a function,
\* exportMastraAgent writes the placeholder "Dynamic instructions (see
\* metadata)" as system, sets metadata_.mastra_dynamic_instructions to true
\* and lists "dynamic_instructions" among the omitted features; when it is a
\* string, system equals that string and none of the three markers appears.
DynamicPlaceholder == "Dynamic instructions (see metadata)"

C17_DynamicInstructions ==
    ExportReturned
        => /\ host.agent.instructions = Function
                => /\ Exported.system = DynamicPlaceholder
                   /\ Exported.metadata_.mastra_dynamic_instructions = Some(TRUE)
                   /\ Omitted("dynamic_instructions")
           /\ host.agent.instructions \notin {Function, Absent}
                => /\ Exported.system = host.agent.instructions
                   /\ Exported.metadata_.mastra_dynamic_instructions = None
                   /\ ~Omitted("dynamic_instructions")

\* C18 (as claimed): exportMastraAgent returns a result without throwing for
\* every host agent config and memory config of the declared shapes,
\* working-memory entries that are null, scalars or objects included, as well
\* as a missing model, missing tools and tools or instructions given as
\* functions.
C18_ExportReturns ==
    last.entry = "exportMastraAgent" => ~last.outcome.threw

\* C19 (as claimed): for every list of n host chat turns and every
\* maxMessages >= 0, with includeMessages true, the exported messages are
\* exactly the last min(n, maxMessages) turns in their original order, and
\* metadata.messageCount equals that number.
Min(a, b) == IF a <= b THEN a ELSE b

LastTurnsExported(turns, k, result) ==
    /\ Len(result.content.doc.messages) = k
    /\ \A i \in 1..k :
           /\ result.content.doc.messages[i].text = turns[Len(turns) - k + i].content
           /\ result.content.doc.messages[i].role = turns[Len(turns) - k + i].role
    /\ result.metadata.messageCount = k

C19_MostRecentMessages ==
    (ExportReturned /\ last.options.includeMessages
        /\ IsSome(host.memory) /\ IsSome(The(host.memory).messages))
        => LastTurnsExported(The(The(host.memory).messages),
                             Min(Len(The(The(host.memory).messages)), last.options.maxMessages),
                             last.outcome.result)

\* C20 (as claimed): for every valid document, the content produced by
\* exportMastraAgent(importAfAgent(doc).agent, importAfAgent(doc).memory) is
\* well-formed JSON that parseAgentFile accepts as a valid document.
C20_RoundTripParses ==
    RoundTripped
        => /\ ~last.outcome.threw
           /\ last.outcome.result.content.kind = "json"
           /\ \A now \in Clock :
                  ~parseAgentFile(last.outcome.result.content, DefaultParseOptions, now).threw

\* --------------------------------------------- claims on failure records
IssuesAt(issues, path) == { i \in DOMAIN issues : issues[i].path = path }
IssuesUnder(issues, field) ==
    { i \in DOMAIN issues : issues[i].path # << >> /\ issues[i].path[1] = field }

\* The document but for its cross references: no index list, no rules, every
\* tool with source code.
WithoutCrossReferences(doc) ==
    WithSource([doc EXCEPT !.in_context_message_indices = None, !.tool_rules = None])

\* C21: a document that is valid but for its cross references and breaks
\* several of the rules at once (an index outside 0 .. len(messages) - 1, a
\* rule naming a missing tool, a python or javascript tool without
\* source_code) is rejected with a failure list that holds a record for each
\* broken rule: one under in_context_message_indices, one at tool_rules, one
\* at tools.<i>.source_code for each such tool, and none for a rule that is
\* kept.
C21_AllViolationsReported ==
    (Validated /\ ValidDoc(WithoutCrossReferences(input.doc)) /\ RulesWellFormed(input.doc))
        => /\ (IssuesUnder(last.outcome.issues, "in_context_message_indices") # {})
                  <=> ~IndicesWithinBounds(input.doc)
           /\ Cardinality(IssuesAt(last.outcome.issues, << "tool_rules" >>))
                  = (IF RulesNameExistingTools(input.doc) THEN 0 ELSE 1)
           /\ \A i \in DOMAIN input.doc.tools :
                  Cardinality(IssuesAt(last.outcome.issues, << "tools", Index(i), "source_code" >>))
                      = (IF MissingSource(input.doc.tools[i]) THEN 1 ELSE 0)

\* The three rules broken in one document: three records, one for each.
C21_Witness ==
    /\ Validated
    /\ input.doc \in CrossReferenceDocs
    /\ ~IndicesWithinBounds(input.doc)
    /\ ~RulesNameExistingTools(input.doc)
    /\ MissingSource(input.doc.tools[1])
    /\ ~last.outcome.success
    /\ Len(last.outcome.issues) = 3
    /\ IssuesAt(last.outcome.issues, << "in_context_message_indices" >>) # {}
    /\ IssuesAt(last.outcome.issues, << "tool_rules" >>) # {}
    /\ IssuesAt(last.outcome.issues, << "tools", "0", "source_code" >>) # {}

\* C22 (as claimed): when validation fails because in_context_message_indices
\* holds a value past the last message, some failure record identifies that
\* value: its path names the element (in_context_message_indices.<position>)
\* or its message ends with the value.
OutOfRangeMessage == "in_context_message_indices contains out-of-range message references"

IdentifiesIndex(issue, position, value) ==
    \/ issue.path = << "in_context_message_indices", Index(position) >>
    \/ issue.message = OutOfRangeMessage \o ": " \o ToString(value)

C22_OffendingIndexNamed ==
    (Validated /\ IsSome(input.doc.in_context_message_indices))
        => \A p \in DOMAIN The(input.doc.in_context_message_indices) :
               The(input.doc.in_context_message_indices)[p] >= Len(input.doc.messages)
                   => \E i \in DOMAIN last.outcome.issues :
                          IdentifiesIndex(last.outcome.issues[i], p,
                                          The(input.doc.in_context_message_indices)[p])

\* ------------------------------------------------ claims on tool import
\* C23 (as claimed): on import a tool that has both metadata._mastra_tool and
\* source_code is converted as an external tool (in the host tool mapping,
\* no handler, extension slot filled) and gets no warning, under every
\* toolCodeStrategy, skip included; a tool with neither is converted as a
\* schema-only tool (no handler, no extension slot) with no warning.
ExternalWithSource(tool) == HasMcpMetadata(tool) /\ Truthy(tool.source_code)
Bare(tool) == ~HasMcpMetadata(tool) /\ ~Truthy(tool.source_code)

ConvertedQuietly(tool, external, result) ==
    /\ tool.name \in DOMAIN result.agent.tools
    /\ result.agent.tools[tool.name].execute = "none"
    /\ (result.agent.tools[tool.name].mcpMetadata # NoMcp) <=> external
    /\ WarningsFor(result.warnings, "tools." \o tool.name) = {}

C23_MetadataPrecedence ==
    (Imported /\ input.kind = "json"
        /\ \E i \in DOMAIN input.doc.tools :
               ExternalWithSource(input.doc.tools[i]) \/ Bare(input.doc.tools[i]))
        => /\ ~last.outcome.threw
           /\ \A i \in DOMAIN input.doc.tools :
                  /\ ExternalWithSource(input.doc.tools[i])
                         => ConvertedQuietly(input.doc.tools[i], TRUE, last.outcome.result)
                  /\ Bare(input.doc.tools[i])
                         => ConvertedQuietly(input.doc.tools[i], FALSE, last.outcome.result)

\* C24 (as claimed): if converting one tool raises an error during import,
\* that tool is left out of the host tool mapping, exactly one warning of
\* severity error with field tools.<tool name> is added, and every other
\* tool of the document, before and after it, is converted as if the failing
\* tool were not there.
Raises(tool, strategy) ==
    /\ tool.parameters = NoParameters
    /\ HasMcpMetadata(tool) \/ ~Truthy(tool.source_code) \/ strategy # "skip"

FailureIsolated(doc, p, result) ==
    /\ doc.tools[p].name \notin DOMAIN result.agent.tools
    /\ Cardinality(WarningsFor(result.warnings, "tools." \o doc.tools[p].name)) = 1
    /\ \A i \in WarningsFor(result.warnings, "tools." \o doc.tools[p].name) :
           result.warnings[i].severity = "error"
    /\ \A j \in DOMAIN doc.tools \ {p} : ConvertedQuietly(doc.tools[j], FALSE, result)
    /\ Cardinality(DOMAIN result.agent.tools) = Len(doc.tools) - 1

C24_ToolErrorIsolated ==
    (Imported /\ input.kind = "object")
        => \A p \in DOMAIN input.doc.tools :
               Raises(input.doc.tools[p], last.options.toolCodeStrategy)
                   => /\ ~last.outcome.threw
                      /\ FailureIsolated(input.doc, p, last.outcome.result)

\* C25 (as claimed): whenever the imported document has
\* in_context_message_indices present, the import result has exactly one
\* warning with field in_context_message_indices, of severity info, and the
\* index list is no key of the host agent or of the memory; whether
\* includeMessages is true or false and whether messages is empty or not.
IndicesSurfaced(result) ==
    /\ Cardinality(WarningsFor(result.warnings, "in_context_message_indices")) = 1
    /\ \A i \in WarningsFor(result.warnings, "in_context_message_indices") :
           result.warnings[i].severity = "info"
    /\ "in_context_message_indices" \notin DOMAIN result.agent \cup DOMAIN result.memory

C25_IndicesSurfaced ==
    (Imported /\ IsSome(input.doc.in_context_message_indices))
        => /\ ~last.outcome.threw
           /\ IndicesSurfaced(last.outcome.result)

\* C26 (as claimed): for every message of the imported document the host chat
\* turn at the same position has content equal to the message text and a
\* metadata slot whose id, timestamp, toolCalls and toolResults equal the
\* message's id, timestamp, tool_calls and tool_results, whatever keys the
\* message's own metadata mapping holds (keys named id or timestamp
\* included).
TurnKeeps(message, turn) ==
    /\ turn.content = message.text
    /\ turn.metadata.id = message.id
    /\ turn.metadata.timestamp = message.timestamp
    /\ turn.metadata.toolCalls = message.tool_calls
    /\ turn.metadata.toolResults = message.tool_results

TurnsKeep(messages, memory) ==
    /\ IsSome(memory.messages)
    /\ Len(The(memory.messages)) = Len(messages)
    /\ \A i \in DOMAIN messages : TurnKeeps(messages[i], The(memory.messages)[i])

C26_MessageMetadataSlot ==
    (Imported /\ last.options.includeMessages /\ Len(input.doc.messages) > 0)
        => /\ ~last.outcome.threw
           /\ TurnsKeep(input.doc.messages, last.outcome.result.memory)

\* C27 (as claimed): in the import result's metadata, mcpTools is the number
\* of converted host tools that carry external-tool metadata of any type (mcp
\* or url), standardTools the number of the other converted host tools, and
\* the two add up to the size of the host tool mapping.
External(tools) == { n \in DOMAIN tools : tools[n].mcpMetadata # NoMcp }

CountsExternal(tools, counts) ==
    /\ counts.mcpTools = Cardinality(External(tools))
    /\ counts.standardTools = Cardinality(DOMAIN tools \ External(tools))
    /\ counts.mcpTools + counts.standardTools = Cardinality(DOMAIN tools)

C27_ToolCounts ==
    (Imported /\ input.kind = "json" /\ input.doc.tools # << >>)
        => /\ ~last.outcome.threw
           /\ CountsExternal(last.outcome.result.agent.tools, last.outcome.result.metadata)

\* ----------------------------------------------- claims on memory export
\* C28 (as claimed): on export every working-memory entry yields exactly one
\* memory block labelled with its key; an entry that is a structured object
\* yields the object's value (the empty string included) and characterLimit,
\* an entry that is a bare scalar yields only its stringified value; and so
\* a core-memory block with an empty value comes out of import followed by
\* export with its value still empty.
BlocksLabelled(exported, label) ==
    { i \in DOMAIN exported.core_memory.entries :
          exported.core_memory.entries[i].block.label = label }

EntryExported(exported, label, data) ==
    /\ Cardinality(BlocksLabelled(exported, label)) = 1
    /\ \A i \in BlocksLabelled(exported, label) :
           /\ exported.core_memory.entries[i].block.value =
                  (IF TypeofObject(data) THEN data.value ELSE data.scalar)
           /\ exported.core_memory.entries[i].block.character_limit =
                  (IF TypeofObject(data) THEN data.characterLimit ELSE None)

EmptyBlocks(doc) ==
    { i \in DOMAIN doc.core_memory.entries : doc.core_memory.entries[i].block.value = "" }

C28_WorkingMemoryBlocks ==
    /\ (last.entry = "exportMastraAgent" /\ IsSome(host.memory)
            /\ IsSome(The(host.memory).workingMemory)
            /\ \A l \in DOMAIN The(The(host.memory).workingMemory) :
                   The(The(host.memory).workingMemory)[l] # JsNull)
           => /\ ~last.outcome.threw
              /\ \A l \in DOMAIN The(The(host.memory).workingMemory) :
                     EntryExported(Exported, l, The(The(host.memory).workingMemory)[l])
    /\ (RoundTripped /\ EmptyBlocks(input.doc) # {})
           => /\ ~last.outcome.threw
              /\ \A i \in EmptyBlocks(input.doc) :
                     \E j \in BlocksLabelled(Exported, input.doc.core_memory.entries[i].block.label) :
                         Exported.core_memory.entries[j].block.value = ""

\* ------------------------------------------------- claims on llm_config
\* C29 (as claimed): for every valid llm_config (provider, model, the numeric
\* knobs and any further keys, one called name included) and no custom
\* modelMapping, the host model produced by import has provider and name
\* equal to llm_config.provider and llm_config.model, and exporting that host
\* model gives an llm_config equal to the original in every key.
C29_LlmConfigRoundTrip ==
    /\ Imported
           => /\ ~last.outcome.threw
              /\ last.outcome.result.agent.model.provider = input.doc.llm_config.provider
              /\ last.outcome.result.agent.model.name = input.doc.llm_config.model
    /\ last.entry = "roundTrip"
           => /\ ~last.outcome.threw
              /\ SameObject(Exported.llm_config, input.doc.llm_config)

\* --------------------------------------- claims on dynamic instructions
\* C30 (as claimed): whenever exportMastraAgent writes a placeholder into
\* system in place of the host's own instruction string, that is for every
\* instructions value that is not a string (a function, undefined), the
\* result's omittedFeatures contains "dynamic_instructions" and the exported
\* metadata_.mastra_dynamic_instructions is true, also when the host agent's
\* own metadata has a key of that name.
C30_PlaceholderFlagged ==
    (ExportReturned /\ host.agent.instructions \in {Function, Absent})
        => /\ Omitted("dynamic_instructions")
           /\ Exported.metadata_.mastra_dynamic_instructions = Some(TRUE)

====
